---- MODULE Spec2Model ----
(***************************************************************************)
(* Finite-field arithmetic, elliptic-curve points, SEC point encoding and  *)
(* ECDSA of the pals repository (finite_field.rs, elliptic_curve.rs,       *)
(* secp256k1.rs, ecdsa.rs, util.rs).                                       *)
(*                                                                         *)
(* The library is purely functional: every operation takes values and      *)
(* returns a new value or panics.  A state of the model is the constructed *)
(* context (Field, FiniteCurve, Secp256k1) together with the last call:    *)
(* its name `op', its inputs `args' and what it returned `ret'.  A panic   *)
(* is a value [panic |-> message] and is propagated by every caller, as    *)
(* unwinding does.                                                         *)
(***************************************************************************)
EXTENDS Integers, Sequences, FiniteSets, TLC

VARIABLES field, curve, secp, op, args, ret

vars == <<field, curve, secp, op, args, ret>>

(***************************************************************************)
(* Bounds of the model.                                                    *)
(***************************************************************************)
\* Field moduli 2..MaxModulus (primes and composites) in the field specification.
MaxModulus == 13
\* Integers -MaxValue..MaxValue handed to Field::elem, Mul<BigInt> and pow.
MaxValue == 15

\* Curves over the prime fields F_p with 5 <= p <= MaxP.
MaxP == 7
\* Scalars -MaxScalar..MaxScalar handed to Point::mul and FiniteCurve::mul.
MaxScalar == 16

\* Message scalars 0..MaxZ handed to Signer::sign.
MaxZ == 3
\* Signatures of the private keys 1..MaxTamperedKey are altered before verify.
MaxTamperedKey == 3

\* The second generator of a commitment is g * m for m in 2..MaxGenerator.
MaxGenerator == 3
\* Values and blinding factors -MaxCommitted..MaxCommitted of added commitments.
MaxCommitted == 2
\* gen_rand draws from 0..MaxRand.
MaxRand == 1
\* Values 0..MaxValueCommitted of the commitments that are verified.
MaxValueCommitted == 3
\* Blinding factors 0..MaxBlindingFactor and n-1-MaxBlindingFactor..n-1.
MaxBlindingFactor == 5
\* At most MaxProofs proofs are handed to gen_z_assets.
MaxProofs == 2

None == [none |-> TRUE]

(***************************************************************************)
(* Panics.                                                                 *)
(***************************************************************************)
Panic(msg) == [panic |-> msg]

IsPanic(v) == "panic" \in DOMAIN v

\* finite_field.rs:77
AHHH == Panic("AHHH")

\* finite_field.rs:81
NoInverse == Panic("has no multiplicative inverse")

(***************************************************************************)
(* BigInt primitives of num-bigint / num-integer as the code uses them.    *)
(***************************************************************************)
Abs(i) == IF i < 0 THEN -i ELSE i

\* Integer::mod_floor: the result has the sign of the (positive) modulus.
mod_floor(a, m) == a % m

\* BigInt `/': division truncated towards zero.
trunc_div(a, b) ==
    IF (a >= 0) = (b >= 0) THEN Abs(a) \div Abs(b) ELSE -(Abs(a) \div Abs(b))

\* BigInt::modpow(exp, modulus); a negative exponent panics in num-bigint.
RECURSIVE modpow(_, _, _)
modpow(base, exp, m) ==
    IF exp = 0 THEN mod_floor(1, m)
    ELSE LET half == modpow(base, exp \div 2, m)
             sq   == mod_floor(half * half, m)
         IN  IF exp % 2 = 1 THEN mod_floor(sq * mod_floor(base, m), m) ELSE sq

(***************************************************************************)
(* finite_field.rs                                                         *)
(***************************************************************************)
\* An intermediate value that the code assigns once and reads many times is
\* bound once, as the single element of a set, and read from that binding.
\* The while loop of extended_euclidean_algorithm: one iteration per call.
RECURSIVE eea_loop(_, _, _, _, _, _)
eea_loop(r, old_r, s, old_s, t, old_t) ==
    IF r = 0 THEN <<old_r, old_s, old_t>>
    ELSE CHOOSE out \in
             { eea_loop(new[1], new[2], new[3], new[4], new[5], new[6]) :
                 new \in { LET quotient == trunc_div(old_r, r)
                           IN  << old_r - quotient * r, r,
                                  old_s - quotient * s, s,
                                  old_t - quotient * t, t >> } } : TRUE

\* The algorithm with the initial values of s and old_s exchanged.
extended_euclidean_algorithm_s_swapped(a, b) == eea_loop(b, a, 1, 0, 0, 1)

\* s = 0, old_s = 1, t = 0, old_t = 1, r = b, old_r = a.
extended_euclidean_algorithm(a, b) == eea_loop(b, a, 0, 1, 0, 1)

\* FieldElement::new
FieldElement_new(value, p) == [value |-> mod_floor(value, p), p |-> p]

\* Field::elem
elem(f, value) == FieldElement_new(value, f.p)

\* Field::new
Field_new(p) == [p |-> p]

\* FieldElement::inverse
inverse(e) ==
    CHOOSE out \in
        { LET gcd == g[1]
              x == g[2]
              y == g[3]
          IN  IF mod_floor(e.value * x + e.p * y, e.p) # gcd THEN AHHH
              ELSE IF gcd # 1 THEN NoInverse
              ELSE FieldElement_new(x, e.p) :
            g \in {extended_euclidean_algorithm(e.value, e.p)} } : TRUE

\* The for loop of slow_inverse: n iterations left.
RECURSIVE slow_inverse_loop(_, _, _)
slow_inverse_loop(inv, e, n) ==
    IF n <= 0 THEN inv
    ELSE slow_inverse_loop(mod_floor(inv * e.value, e.p), e, n - 1)

\* FieldElement::slow_inverse
slow_inverse(e) == FieldElement_new(slow_inverse_loop(1, e, e.p - 2), e.p)

\* FieldElement::is_even
is_even(e) == e.value % 2 = 0

\* FieldElement::pow
pow(e, n) ==
    IF n < 0 THEN Panic("negative exponent")
    ELSE FieldElement_new(modpow(e.value, n, e.p), e.p)

\* A sqrt with the exponent (p - 1) / 4.
sqrt_p_minus_1(e) == LET exp == trunc_div(e.p - 1, 4) IN pow(e, exp)

\* FieldElement::sqrt
sqrt(e) == LET exp == trunc_div(e.p + 1, 4) IN pow(e, exp)

\* impl Add<&FieldElement> for FieldElement (and the forwarding impls)
fe_add(lhs, rhs) == [value |-> mod_floor(lhs.value + rhs.value, rhs.p), p |-> rhs.p]

\* impl Sub<&FieldElement> for FieldElement (and the forwarding impls)
fe_sub(lhs, rhs) == [value |-> mod_floor(lhs.value - rhs.value, rhs.p), p |-> rhs.p]

\* A negation that forgets to reduce its result.
fe_neg_unreduced(e) == [value |-> -e.value, p |-> e.p]

\* impl Neg for FieldElement
fe_neg(e) == [value |-> mod_floor(-e.value, e.p), p |-> e.p]

\* impl Mul for FieldElement
fe_mul(lhs, rhs) == [value |-> mod_floor(lhs.value * rhs.value, rhs.p), p |-> rhs.p]

\* impl Mul<BigInt> for FieldElement
fe_mul_int(lhs, rhs) == [value |-> mod_floor(lhs.value * rhs, lhs.p), p |-> lhs.p]

\* impl Div for FieldElement: self * rhs.inverse()
fe_div(lhs, rhs) ==
    CHOOSE out \in { IF IsPanic(inv) THEN inv ELSE fe_mul(lhs, inv) : inv \in {inverse(rhs)} } : TRUE

\* impl PartialEq<usize> for FieldElement
fe_eq_usize(e, n) == e.value = n

(***************************************************************************)
(* elliptic_curve.rs: Point and FiniteCurve.                               *)
(***************************************************************************)
\* Point::Infinity
Infinity == [inf |-> TRUE]

\* Point::coord
coord(x, y) == [inf |-> FALSE, x |-> x, y |-> y]

\* Point::inverse
Point_inverse(pt) == IF pt.inf THEN Infinity ELSE coord(pt.x, fe_neg(pt.y))

\* An intersection whose y_r is measured from x_p instead of x_q.
add_coordinates_y_r_from_x_p(p, q, a) ==
    CHOOSE out \in
        { IF IsPanic(m) THEN m
          ELSE LET m2 == fe_mul(m, m)
                   x_r == fe_sub(fe_sub(m2, p.x), q.x)
                   y_r == fe_add(q.y, fe_mul(m, fe_sub(x_r, p.x)))
               IN  coord(x_r, fe_neg(y_r)) :
            m \in { IF p.x = q.x /\ p.y = p.y
                    THEN fe_div(fe_add(fe_mul_int(fe_mul(p.x, p.x), 3), a), fe_mul_int(p.y, 2))
                    ELSE fe_div(fe_sub(p.y, q.y), fe_sub(p.x, q.x)) } } : TRUE

\* An intersection whose x_r is m^2 - x_p, without the subtraction of x_q.
add_coordinates_without_x_q(p, q, a) ==
    CHOOSE out \in
        { IF IsPanic(m) THEN m
          ELSE LET m2 == fe_mul(m, m)
                   x_r == fe_sub(m2, p.x)
                   y_r == fe_add(q.y, fe_mul(m, fe_sub(x_r, q.x)))
               IN  coord(x_r, fe_neg(y_r)) :
            m \in { IF p.x = q.x /\ p.y = p.y
                    THEN fe_div(fe_add(fe_mul_int(fe_mul(p.x, p.x), 3), a), fe_mul_int(p.y, 2))
                    ELSE fe_div(fe_sub(p.y, q.y), fe_sub(p.x, q.x)) } } : TRUE

\* The slope m and the intersection of Point::add and FiniteCurve::add, for
\* two coordinate points on the curve with coefficient a.
add_coordinates(p, q, a) ==
    CHOOSE out \in
        { IF IsPanic(m) THEN m
          ELSE LET m2 == fe_mul(m, m)
                   x_r == fe_sub(fe_sub(m2, p.x), q.x)
                   y_r == fe_add(q.y, fe_mul(m, fe_sub(x_r, q.x)))
               IN  coord(x_r, fe_neg(y_r)) :
            m \in { IF p.x = q.x /\ p.y = p.y
                    THEN fe_div(fe_add(fe_mul_int(fe_mul(p.x, p.x), 3), a), fe_mul_int(p.y, 2))
                    ELSE fe_div(fe_sub(p.y, q.y), fe_sub(p.x, q.x)) } } : TRUE

\* The divisor of the slope in Point::add: y_p * 2 in the branch of equal x,
\* x_p - x_q in the other branch.
add_divisor(p, q) ==
    IF p.x = q.x /\ p.y = p.y THEN fe_mul_int(p.y, 2) ELSE fe_sub(p.x, q.x)

\* An addition without the early return for p == q.inverse().
Point_add_no_inverse_check(p, q, c) ==
    IF p.inf THEN q
    ELSE IF q.inf THEN p
    ELSE add_coordinates(p, q, c.a)

\* Point::add
Point_add(p, q, c) ==
    IF p = Point_inverse(q) THEN Infinity
    ELSE IF p.inf THEN q
    ELSE IF q.inf THEN p
    ELSE add_coordinates(p, q, c.a)

\* The while loop of Point::mul: result = result.add(current), then double.
\* The two points of an iteration are bound as values (added, doubled), the
\* way the loop assigns them, before the next iteration reads them.
RECURSIVE Point_mul_loop(_, _, _, _)
Point_mul_loop(coeff, current, result, c) ==
    IF coeff <= 0 THEN result
    ELSE CHOOSE out \in
             { IF IsPanic(added) THEN added
               ELSE IF IsPanic(doubled) THEN doubled
               ELSE Point_mul_loop(coeff \div 2, doubled, added, c) :
                 added \in {IF coeff % 2 # 0 THEN Point_add(result, current, c) ELSE result},
                 doubled \in {Point_add(current, current, c)} } : TRUE

\* A multiplication whose result starts as the point instead of Infinity.
Point_mul_from_point(pt, n, c) == Point_mul_loop(mod_floor(n, c.field.p), pt, pt, c)

\* Point::mul: the scalar is reduced modulo the prime of the curve's field.
Point_mul(pt, n, c) == Point_mul_loop(mod_floor(n, c.field.p), pt, Infinity, c)

\* Point::is_infinity
is_infinity(pt) == pt = Infinity

\* FiniteCurve::new
FiniteCurve_new(a, b, p) ==
    LET f == Field_new(p) IN [a |-> elem(f, a), b |-> elem(f, b), field |-> f]

\* FiniteCurve::field_elem
field_elem(c, n) == elem(c.field, n)

\* FiniteCurve::point: no check that the point is on the curve.
point(c, x, y) == coord(field_elem(c, x), field_elem(c, y))

\* FiniteCurve::add
FiniteCurve_add(c, p, q) ==
    IF p = Point_inverse(q) THEN Infinity
    ELSE IF p.inf THEN q
    ELSE IF q.inf THEN p
    ELSE add_coordinates(p, q, c.a)

\* The while loop of FiniteCurve::mul: result = add(current, result), then double.
RECURSIVE FiniteCurve_mul_loop(_, _, _, _)
FiniteCurve_mul_loop(c, coeff, current, result) ==
    IF coeff <= 0 THEN result
    ELSE CHOOSE out \in
             { IF IsPanic(added) THEN added
               ELSE IF IsPanic(doubled) THEN doubled
               ELSE FiniteCurve_mul_loop(c, coeff \div 2, doubled, added) :
                 added \in {IF coeff % 2 # 0 THEN FiniteCurve_add(c, current, result) ELSE result},
                 doubled \in {FiniteCurve_add(c, current, current)} } : TRUE

\* FiniteCurve::mul
FiniteCurve_mul(c, p, n) ==
    IF n < 0 THEN Panic("Unexpected multiply by negative number")
    ELSE FiniteCurve_mul_loop(c, n, p, Infinity)

\* FiniteCurve::solve_y
solve_y(c, x, even) ==
    LET x_3 == field_elem(c, x * x * x)
        rhs == fe_add(fe_add(x_3, fe_mul_int(c.a, x)), c.b)
        y == sqrt(rhs)
        other == field_elem(c, c.field.p - y.value)
        even_beta == IF is_even(y) THEN y ELSE other
        odd_beta == IF is_even(y) THEN other ELSE y
    IN  IF even THEN even_beta ELSE odd_beta

\* FiniteCurve::is_valid_point
is_valid_point(c, pt) ==
    IF pt.inf THEN FALSE
    ELSE LET lhs == pow(pt.y, 2)
             rhs == fe_add(fe_add(pow(pt.x, 3), fe_mul(c.a, pt.x)), c.b)
         IN  lhs = rhs

\* secp256k1.rs, impl Sub<&Point> for Point: addition of the inverse.
Point_sub(p, q, c) == Point_add(p, Point_inverse(q), c)

(***************************************************************************)
(* ecc.rs: the first version of the curve, over i64 field elements.  Its   *)
(* FieldElement operators reduce with modulo(p) and its inverse returns    *)
(* x.modulo(p), so on reduced elements they compute what the operators of  *)
(* finite_field.rs compute.                                                *)
(***************************************************************************)
\* Curve::add
Curve_add(c, p, q) ==
    IF p = Point_inverse(q) THEN Infinity
    ELSE IF p.inf THEN q
    ELSE IF q.inf THEN p
    ELSE add_coordinates(p, q, c.a)

\* Curve::naive_mul: r = Infinity, then n times r = add(r, p).
RECURSIVE naive_mul(_, _, _)
naive_mul(c, p, n) ==
    IF n <= 0 THEN Infinity
    ELSE CHOOSE out \in
             { IF IsPanic(r) THEN r ELSE Curve_add(c, r, p) :
                 r \in {naive_mul(c, p, n - 1)} } : TRUE

(***************************************************************************)
(* util.rs and the SEC encoding of elliptic_curve.rs.  A Vec<u8> is a      *)
(* sequence of integers 0..255, returned as [bytes |-> ...].               *)
(***************************************************************************)
Bytes(b) == [bytes |-> b]

\* Result::Ok
Ok(v) == [ok |-> v]

\* Result::Err
Err(msg) == [err |-> msg]

\* The magnitude of BigInt::to_bytes_be: big-endian, minimal length, [0] for zero.
RECURSIVE to_bytes_be(_)
to_bytes_be(num) ==
    IF Abs(num) < 256 THEN <<Abs(num)>>
    ELSE to_bytes_be(Abs(num) \div 256) \o <<Abs(num) % 256>>

\* The sign of BigInt::to_bytes_be: zero has Sign::NoSign.
bigint_sign(num) == IF num > 0 THEN "Plus" ELSE IF num = 0 THEN "NoSign" ELSE "Minus"

\* BigInt::from_bytes_be(Sign::Plus, bytes); the empty slice is zero.
RECURSIVE from_bytes_be(_)
from_bytes_be(bytes) ==
    IF Len(bytes) = 0 THEN 0
    ELSE from_bytes_be(SubSeq(bytes, 1, Len(bytes) - 1)) * 256 + bytes[Len(bytes)]

\* vec of n zero bytes: the padding loop of bigint_to_bytes32_be.
zeros(n) == [i \in 1..n |-> 0]

\* util.rs, bigint_to_bytes32_be(num): always 32 bytes.
bigint_to_bytes32_be(num) ==
    IF bigint_sign(num) # "Plus" THEN Panic("BigInt is negative which is not currently allowed")
    ELSE IF Len(to_bytes_be(num)) > 32 THEN Panic("BigInt is too large to fit within 32 bytes.")
    ELSE Bytes(zeros(32 - Len(to_bytes_be(num))) \o to_bytes_be(num))

\* The two-argument form that elliptic_curve.rs and ecdsa.rs call: with pad it is
\* the function above, without pad the padding loop is skipped and the bytes of
\* to_bytes_be are returned as they are (as_sec_compressed of point(1, 2) is [2, 1]).
bigint_to_bytes32_be_pad(num, pad) ==
    IF pad THEN bigint_to_bytes32_be(num)
    ELSE IF bigint_sign(num) # "Plus" THEN Panic("BigInt is negative which is not currently allowed")
    ELSE IF Len(to_bytes_be(num)) > 32 THEN Panic("BigInt is too large to fit within 32 bytes.")
    ELSE Bytes(to_bytes_be(num))

\* Point::as_sec
as_sec(pt) ==
    IF pt.inf THEN Panic("cannot encode infinity in sec")
    ELSE LET xb == bigint_to_bytes32_be_pad(pt.x.value, TRUE)
             yb == bigint_to_bytes32_be_pad(pt.y.value, TRUE)
         IN  IF IsPanic(xb) THEN xb
             ELSE IF IsPanic(yb) THEN yb
             ELSE Bytes(<<4>> \o xb.bytes \o yb.bytes)

\* Point::as_sec_compressed
as_sec_compressed(pt) ==
    IF pt.inf THEN Panic("cannot encode infinity in sec")
    ELSE LET prefix == IF is_even(pt.y) THEN 2 ELSE 3
             xb == bigint_to_bytes32_be_pad(pt.x.value, FALSE)
         IN  IF IsPanic(xb) THEN xb
             ELSE Bytes(<<prefix>> \o xb.bytes)

\* Point::from_sec; bytes[0] of an empty slice is an index panic.
from_sec(bytes, c) ==
    IF Len(bytes) = 0 THEN Panic("index out of bounds")
    ELSE IF bytes[1] = 2
    THEN LET x == from_bytes_be(SubSeq(bytes, 2, Len(bytes)))
             y == solve_y(c, x, TRUE)
         IN  Ok(point(c, x, y.value))
    ELSE IF bytes[1] = 3
    THEN LET x == from_bytes_be(SubSeq(bytes, 2, Len(bytes)))
             y == solve_y(c, x, FALSE)
         IN  Ok(point(c, x, y.value))
    ELSE IF bytes[1] = 4
    THEN IF Len(bytes) < 65 THEN Err("Not enough bytes. Expected at least 65")
         ELSE LET x == from_bytes_be(SubSeq(bytes, 2, 33))
                  y == from_bytes_be(SubSeq(bytes, 34, 65))
              IN  Ok(point(c, x, y))
    ELSE Err("Invalid prefix")

(***************************************************************************)
(* secp256k1.rs.  The 256-bit domain parameters are out of the reach of a  *)
(* model checker; Secp256k1::new is modelled with curves of the same shape *)
(* (a = 0, p prime and p = 3 mod 4, a generator of prime order n < p):     *)
(* y^2 = x^3 + 7 over F_43 with n = 31, where no x is a multiple of n, and *)
(* y^2 = x^3 + 14 over F_19 with n = 13, where the points (13, 8) and      *)
(* (13, 11) have x = 0 mod n.                                              *)
(***************************************************************************)
SecpParams ==
    { [a |-> 0, b |-> 7, p |-> 43, n |-> 31, x_g |-> 2, y_g |-> 12],
      [a |-> 0, b |-> 14, p |-> 19, n |-> 13, x_g |-> 5, y_g |-> 5] }

\* Secp256k1::new
Secp256k1_new(prm) ==
    LET c == FiniteCurve_new(prm.a, prm.b, prm.p)
    IN  [curve |-> c, g |-> point(c, prm.x_g, prm.y_g), subgroup_field |-> Field_new(prm.n)]

\* Secp256k1::pubkey
pubkey(k1, private_key) == FiniteCurve_mul(k1.curve, k1.g, private_key)

\* Secp256k1::subgroup_field_elem
subgroup_field_elem(k1, n) == elem(k1.subgroup_field, n)

\* Secp256k1::mul: the double-and-add of the curve, as Secp256k1::pubkey calls it.
Secp256k1_mul(k1, p, n) == FiniteCurve_mul(k1.curve, p, n)

\* Secp256k1::add: the addition of the curve.
Secp256k1_add(k1, p, q) == FiniteCurve_add(k1.curve, p, q)

\* Secp256k1::order: the order n of the subgroup of the generator.
Secp256k1_order(k1) == k1.subgroup_field.p

\* Secp256k1::mul_g: mul(G, scalar).
mul_g(k1, n) == Secp256k1_mul(k1, k1.g, n)

(***************************************************************************)
(* ecdsa.rs                                                                *)
(***************************************************************************)
\* Sig { z, r, s }
Sig(r, s, z) == [z |-> z, r |-> r, s |-> s]

Bool(b) == [bool |-> b]

\* A der_encode_value that never inserts the 0 byte.
der_encode_value_unsigned(v) ==
    CHOOSE out \in
        { IF IsPanic(bytes) THEN bytes
          ELSE Bytes(<<2, Len(bytes.bytes) % 256>> \o bytes.bytes) :
            bytes \in {bigint_to_bytes32_be_pad(v, FALSE)} } : TRUE

\* der_encode_value: bytes[0] & 0x80 > 0 is bytes[0] >= 128; `as u8' is % 256.
der_encode_value(v) ==
    CHOOSE out \in
        { IF IsPanic(bytes) THEN bytes
          ELSE LET inserted == IF bytes.bytes[1] >= 128 THEN <<0>> \o bytes.bytes
                               ELSE bytes.bytes
               IN  Bytes(<<2, Len(inserted) % 256>> \o inserted) :
            bytes \in {bigint_to_bytes32_be_pad(v, FALSE)} } : TRUE

\* Sig::as_der
as_der(sig) ==
    CHOOSE out \in
        { IF IsPanic(r_der) THEN r_der
          ELSE IF IsPanic(s_der) THEN s_der
          ELSE Bytes(<<48, (Len(r_der.bytes) + Len(s_der.bytes)) % 256>>
                     \o r_der.bytes \o s_der.bytes) :
            r_der \in {der_encode_value(sig.r.value)},
            s_der \in {der_encode_value(sig.s.value)} } : TRUE

\* Signer::elem
Signer_elem(k1, n) == subgroup_field_elem(k1, n)

\* A compute_r that builds r in the field of the coordinates instead of the subgroup field.
compute_r_in_curve_field(k1, p) ==
    IF p.inf THEN Panic("expected a coordinate")
    ELSE LET r == field_elem(k1.curve, p.x.value)
         IN  IF fe_eq_usize(r, 0) THEN Panic("r was 0. Choose another k.") ELSE r

\* Signer::compute_r
compute_r(k1, p) ==
    IF p.inf THEN Panic("expected a coordinate")
    ELSE LET r == Signer_elem(k1, p.x.value)
         IN  IF fe_eq_usize(r, 0) THEN Panic("r was 0. Choose another k.") ELSE r

\* A sign without the test of s against 0.
sign_without_s_check(k1, z_in, k_in, privkey_in) ==
    CHOOSE out \in
        { LET r == compute_r(k1, p)
              k == Signer_elem(k1, k_in)
              z == Signer_elem(k1, z_in)
              privkey == Signer_elem(k1, privkey_in)
              k_inv == inverse(k)
              s == fe_mul(k_inv, fe_add(z, fe_mul(r, privkey)))
          IN  IF IsPanic(p) THEN p
              ELSE IF IsPanic(r) THEN r
              ELSE IF IsPanic(k_inv) THEN k_inv
              ELSE Sig(r, s, z) :
            p \in {mul_g(k1, k_in)} } : TRUE

\* Signer::sign
sign(k1, z_in, k_in, privkey_in) ==
    CHOOSE out \in
        { LET r == compute_r(k1, p)
              k == Signer_elem(k1, k_in)
              z == Signer_elem(k1, z_in)
              privkey == Signer_elem(k1, privkey_in)
              k_inv == inverse(k)
              s == fe_mul(k_inv, fe_add(z, fe_mul(r, privkey)))
          IN  IF IsPanic(p) THEN p
              ELSE IF IsPanic(r) THEN r
              ELSE IF IsPanic(k_inv) THEN k_inv
              ELSE IF fe_eq_usize(s, 0) THEN Panic("s was 0. Choose another k.")
              ELSE Sig(r, s, z) :
            p \in {mul_g(k1, k_in)} } : TRUE

\* The point p of Signer::verify: mul_g(u_1).add(pubkey.mul(u_2)).
verify_p(k1, sig, pub) ==
    LET s_inv == inverse(sig.s)
        u_1 == fe_mul(s_inv, sig.z)
        u_2 == fe_mul(s_inv, sig.r)
    IN  IF IsPanic(s_inv) THEN s_inv
        ELSE Point_add(mul_g(k1, u_1.value), Point_mul(pub, u_2.value, k1.curve), k1.curve)

\* A verify that compares the r of the signature with r itself.
verify_accepts_any_point(k1, sig, pub) ==
    LET s_inv == inverse(sig.s)
    IN  IF IsPanic(s_inv) THEN s_inv ELSE Bool(sig.r = sig.r)

\* Signer::verify
verify(k1, sig, pub) ==
    LET s_inv == inverse(sig.s)
        u_1 == fe_mul(s_inv, sig.z)
        u_2 == fe_mul(s_inv, sig.r)
    IN  IF IsPanic(s_inv) THEN s_inv
        ELSE CHOOSE out \in
                 { LET p == Point_add(g_u1, pub_u2, k1.curve)
                       computed_r == compute_r(k1, p)
                   IN  IF IsPanic(g_u1) THEN g_u1
                       ELSE IF IsPanic(pub_u2) THEN pub_u2
                       ELSE IF IsPanic(p) THEN p
                       ELSE IF IsPanic(computed_r) THEN computed_r
                       ELSE Bool(sig.r = computed_r) :
                     g_u1 \in {mul_g(k1, u_1.value)},
                     pub_u2 \in {Point_mul(pub, u_2.value, k1.curve)} } : TRUE

(***************************************************************************)
(* secp256k1.rs: Point, an elliptic_curve Point together with its curve.   *)
(* The Secp256k1 is handed to Point::add and Point::mul as the FiniteCurvy.*)
(***************************************************************************)
\* impl Add<&Point> for &Point (and the forwarding impls)
SecpPoint_add(k1, p, q) ==
    IF IsPanic(p) THEN p ELSE IF IsPanic(q) THEN q ELSE Point_add(p, q, k1.curve)

\* impl Mul<T> for &Point (and the forwarding impl)
SecpPoint_mul(k1, p, n) ==
    IF IsPanic(p) THEN p ELSE Point_mul(p, n, k1.curve)

\* Point::inverse
SecpPoint_inverse(p) == IF IsPanic(p) THEN p ELSE Point_inverse(p)

(***************************************************************************)
(* provisions/binary_commitment.rs                                         *)
(***************************************************************************)
\* PedersenCommitment::create_commitment: l = g * value + h * blinding_factor.
create_commitment(g, h, k1, value, blinding_factor) ==
    CHOOSE out \in
        { IF IsPanic(l) THEN l ELSE [g |-> g, h |-> h, l |-> l] :
            l \in { SecpPoint_add(k1, SecpPoint_mul(k1, g, value),
                                      SecpPoint_mul(k1, h, blinding_factor)) } } : TRUE

\* The "random" values of the prover in verify_binary_commitment.
u0 == 9213
u1 == 125
cf == 3

\* The branch of verify_binary_commitment for value == 1.
verify_binary_commitment_truthy(commitment, blinding_factor, k1) ==
    LET q == k1.curve.field.p
        g == commitment.g
        h == commitment.h
        l == commitment.l
        c == cf * 2
        c1 == mod_floor(c - cf, q)
        r0 == mod_floor(u0 + (cf * blinding_factor), q)
        r1 == mod_floor(u1 + ((c - cf) * blinding_factor), q)
        exp == mod_floor(c - cf, q)
    IN  CHOOSE out \in
            { IF IsPanic(h_r0) THEN h_r0
              ELSE IF IsPanic(h_r1) THEN h_r1
              ELSE IF IsPanic(v_r0) THEN v_r0
              ELSE IF IsPanic(v_r1) THEN v_r1
              ELSE Bool(h_r0 = v_r0 /\ h_r1 = v_r1) :
                h_r0 \in {SecpPoint_mul(k1, h, r0)},
                h_r1 \in {SecpPoint_mul(k1, h, r1)},
                v_r0 \in {SecpPoint_add(k1, SecpPoint_mul(k1, l, exp),
                             SecpPoint_add(k1, SecpPoint_mul(k1, h, u0),
                                               SecpPoint_mul(k1, SecpPoint_inverse(g), cf)))},
                v_r1 \in {SecpPoint_add(k1, SecpPoint_mul(k1, h, u1),
                             SecpPoint_mul(k1, SecpPoint_add(k1, l, SecpPoint_inverse(g)), c1))} }
            : TRUE

\* The branch of verify_binary_commitment for value # 1.
verify_binary_commitment_falsy(commitment, blinding_factor, k1) ==
    LET g == commitment.g
        h == commitment.h
        l == commitment.l
        c == cf * 2
        c1 == cf
        r0 == u0 + (c - cf) * blinding_factor
        r1 == u1 + cf * blinding_factor
    IN  CHOOSE out \in
            { IF IsPanic(h_r0) THEN h_r0
              ELSE IF IsPanic(h_r1) THEN h_r1
              ELSE IF IsPanic(v_r0) THEN v_r0
              ELSE IF IsPanic(v_r1) THEN v_r1
              ELSE Bool(h_r0 = v_r0 /\ h_r1 = v_r1) :
                h_r0 \in {SecpPoint_mul(k1, h, r0)},
                h_r1 \in {SecpPoint_mul(k1, h, r1)},
                v_r0 \in {SecpPoint_add(k1, SecpPoint_mul(k1, l, c - cf),
                                            SecpPoint_mul(k1, h, u0))},
                v_r1 \in {SecpPoint_add(k1, SecpPoint_add(k1, SecpPoint_mul(k1, h, u1),
                                                              SecpPoint_mul(k1, g, cf)),
                             SecpPoint_mul(k1, SecpPoint_add(k1, l, SecpPoint_inverse(g)), c1))} }
            : TRUE

\* PedersenCommitment::verify_binary_commitment
verify_binary_commitment(commitment, value, blinding_factor, k1) ==
    IF value = 1
    THEN verify_binary_commitment_truthy(commitment, blinding_factor, k1)
    ELSE verify_binary_commitment_falsy(commitment, blinding_factor, k1)

(***************************************************************************)
(* provisions/proof_of_assets.rs                                           *)
(***************************************************************************)
\* The scalar whose multiple of G is h (the SHA-256 of "Provisions" in the code).
provisions_sha256 == 7

\* ProvisionsCurve::new
ProvisionsCurve_new(k1) == [curve |-> k1, h |-> mul_g(k1, provisions_sha256)]

\* ProvisionsCurve::mul
ProvisionsCurve_mul(pc, p, n) == IF IsPanic(p) THEN p ELSE Secp256k1_mul(pc.curve, p, n)

\* ProvisionsCurve::mul_g
ProvisionsCurve_mul_g(pc, n) == mul_g(pc.curve, n)

\* ProvisionsCurve::mul_h
ProvisionsCurve_mul_h(pc, n) == Secp256k1_mul(pc.curve, pc.h, n)

\* ProvisionsCurve::add
ProvisionsCurve_add(pc, p, q) ==
    IF IsPanic(p) THEN p ELSE IF IsPanic(q) THEN q ELSE Secp256k1_add(pc.curve, p, q)

\* ProvisionsCurve::sub
ProvisionsCurve_sub(pc, p, q) ==
    IF IsPanic(p) THEN p ELSE IF IsPanic(q) THEN q
    ELSE Secp256k1_add(pc.curve, p, Point_inverse(q))

\* ProvisionsCurve::pubkey
ProvisionsCurve_pubkey(pc, private_key) == ProvisionsCurve_mul_g(pc, private_key)

\* Option<BigInt>
Some(v) == [some |-> v]

\* PublicKey::new
PublicKey_new(private_key, public_key, balance) ==
    [private_key |-> Some(private_key), public_key |-> public_key, balance |-> balance]

\* PublicKey::new_from_pubkey
PublicKey_new_from_pubkey(public_key, balance) ==
    [private_key |-> None, public_key |-> public_key, balance |-> balance]

\* PublicKey::y
PublicKey_y(pk) == pk.public_key

\* PublicKey::s
PublicKey_s(pk) == IF pk.private_key = None THEN 0 ELSE 1

\* PublicKey::b
PublicKey_b(pk, pc) == ProvisionsCurve_mul_g(pc, pk.balance)

\* PublicKey::commitment_with_v: p = b^s * h^v.
PublicKey_commitment_with_v(pk, pc, v) ==
    ProvisionsCurve_add(pc, ProvisionsCurve_mul(pc, PublicKey_b(pk, pc), PublicKey_s(pk)),
                            ProvisionsCurve_mul_h(pc, v))

\* An x_hat that is 0 whether or not the private key is known.
PublicKey_x_hat_unknown(pk) == 0

\* PublicKey::x_hat
PublicKey_x_hat(pk) == IF pk.private_key = None THEN 0 ELSE pk.private_key.some

\* PublicKey::l with the t that gen_rand drew: l = y^s * h^t.
PublicKey_l(pk, pc, t) ==
    ProvisionsCurve_add(pc, ProvisionsCurve_mul(pc, PublicKey_y(pk), PublicKey_s(pk)),
                            ProvisionsCurve_mul_h(pc, t))

\* ProofOfAssets::gen_pk_proof with the v and t that gen_rand drew.
gen_pk_proof(pc, pk, v, t) ==
    CHOOSE out \in
        { IF IsPanic(b) THEN b ELSE IF IsPanic(p) THEN p ELSE IF IsPanic(l) THEN l
          ELSE [prover |-> [y |-> PublicKey_y(pk), b |-> b, p |-> p, v |-> v, l |-> l,
                            t |-> t, s |-> PublicKey_s(pk), x_hat |-> PublicKey_x_hat(pk)],
                verifier |-> [y |-> PublicKey_y(pk), b |-> b, p |-> p, l |-> l]] :
            b \in {PublicKey_b(pk, pc)},
            p \in {PublicKey_commitment_with_v(pk, pc, v)},
            l \in {PublicKey_l(pk, pc, t)} } : TRUE

\* The first panic among the values vs, or None.
FirstPanic(vs) ==
    IF \E i \in 1..Len(vs) : IsPanic(vs[i])
    THEN vs[CHOOSE i \in 1..Len(vs) : IsPanic(vs[i]) /\ \A j \in 1..(i - 1) : ~IsPanic(vs[j])]
    ELSE None

\* The three comparisons p1, p2, p3 of verify_pk_proof, with the u_1..u_4 and
\* the challenge c that gen_rand drew.
pk_proof_parts(pc, prover_proof, verifier_proof, u_1, u_2, u_3, u_4, c) ==
    LET a_1 == ProvisionsCurve_add(pc, ProvisionsCurve_mul(pc, prover_proof.b, u_1),
                                       ProvisionsCurve_mul_h(pc, u_2))
        a_2 == ProvisionsCurve_add(pc, ProvisionsCurve_mul(pc, prover_proof.y, u_1),
                                       ProvisionsCurve_mul_h(pc, u_3))
        a_3 == ProvisionsCurve_add(pc, ProvisionsCurve_mul_g(pc, u_4),
                                       ProvisionsCurve_mul_h(pc, u_3))
        r_s == u_1 + (c * prover_proof.s)
        r_v == u_2 + (c * prover_proof.v)
        r_t == u_3 + (c * prover_proof.t)
        r_x_hat == u_4 + (c * prover_proof.x_hat)
    IN  CHOOSE out \in
            { IF FirstPanic(<<bh, pa1, yh, la2, gh, la3>>) # None
              THEN FirstPanic(<<bh, pa1, yh, la2, gh, la3>>)
              ELSE [p1 |-> bh = pa1, p2 |-> yh = la2, p3 |-> gh = la3] :
                bh \in {ProvisionsCurve_add(pc, ProvisionsCurve_mul(pc, verifier_proof.b, r_s),
                                                ProvisionsCurve_mul_h(pc, r_v))},
                pa1 \in {ProvisionsCurve_add(pc, ProvisionsCurve_mul(pc, verifier_proof.p, c), a_1)},
                yh \in {ProvisionsCurve_add(pc, ProvisionsCurve_mul(pc, verifier_proof.y, r_s),
                                                ProvisionsCurve_mul_h(pc, r_t))},
                la2 \in {ProvisionsCurve_add(pc, ProvisionsCurve_mul(pc, verifier_proof.l, c), a_2)},
                gh \in {ProvisionsCurve_add(pc, ProvisionsCurve_mul_g(pc, r_x_hat),
                                                ProvisionsCurve_mul_h(pc, r_t))},
                la3 \in {ProvisionsCurve_add(pc, ProvisionsCurve_mul(pc, verifier_proof.l, c), a_3)} }
            : TRUE

\* The result of verify_pk_proof, with the test of p2 before the test of p1.
pk_proof_result_p2_first(parts) ==
    IF IsPanic(parts) THEN parts
    ELSE IF parts.p2
         THEN IF parts.p1
              THEN IF parts.p3 THEN Ok(<<>>) ELSE Err("Unable to verify proof part 3")
              ELSE Err("Unable to verify proof part 1")
         ELSE Err("Unable to verify proof part 2")

\* The nested if of verify_pk_proof over p1, p2, p3.
pk_proof_result(parts) ==
    IF IsPanic(parts) THEN parts
    ELSE IF parts.p1
         THEN IF parts.p2
              THEN IF parts.p3 THEN Ok(<<>>) ELSE Err("Unable to verify proof part 3")
              ELSE Err("Unable to verify proof part 2")
         ELSE Err("Unable to verify proof part 1")

\* ProofOfAssets::verify_pk_proof: what it prints (p1, p2, p3) and what it returns.
verify_pk_proof(pc, prover_proof, verifier_proof, u_1, u_2, u_3, u_4, c) ==
    CHOOSE out \in
        { [printed |-> parts, value |-> pk_proof_result(parts)] :
            parts \in {pk_proof_parts(pc, prover_proof, verifier_proof,
                                      u_1, u_2, u_3, u_4, c)} } : TRUE

\* The fold of gen_z_assets: acc = curve.add(acc, proof.p()) for each proof.
RECURSIVE gen_z_assets_fold(_, _, _)
gen_z_assets_fold(pc, acc, proofs) ==
    IF proofs = <<>> THEN acc
    ELSE CHOOSE out \in
             { gen_z_assets_fold(pc, next, Tail(proofs)) :
                 next \in {ProvisionsCurve_add(pc, acc, Head(proofs).p)} } : TRUE

\* ProofOfAssets::gen_z_assets
gen_z_assets(pc, proofs) == gen_z_assets_fold(pc, Infinity, proofs)

\* The scalars that ProofOfAssets::verify_binary_commitment passes to the
\* multiplications of the curve (mul_h, mul_g, mul), with the group order q.
verify_binary_commitment_scalars(prover_proof, u_0, u_1, c_f, c, q) ==
    LET x == prover_proof.s
        y == prover_proof.t
        has_privkey == x = 1
        c_1 == IF has_privkey THEN mod_floor(c - c_f, q) ELSE c_f
        r_0 == IF has_privkey THEN mod_floor(u_0 - (c_f * y), q) ELSE u_0 + (c - c_f) * y
        r_1 == IF has_privkey THEN mod_floor(u_1 + (c - c_f) * y, q) ELSE u_1 + c_f * y
    IN  [u_0 |-> u_0, u_1 |-> u_1, c_f |-> c_f, r_0 |-> r_0, r_1 |-> r_1,
         c_minus_c_1 |-> c - c_1, c_1 |-> c_1]

\* ProofOfAssets::verify_binary_commitment with the u_0, u_1, c_f and the
\* challenge c that gen_rand drew: what it prints (p1, p2) and what it returns.
ProofOfAssets_verify_binary_commitment(pc, prover_proof, verifier_proof, u_0, u_1, c_f, c) ==
    LET x == prover_proof.s
        y == prover_proof.t
        has_privkey == x = 1
        q == Secp256k1_order(pc.curve)
        a_0 == IF has_privkey
               THEN ProvisionsCurve_sub(pc, ProvisionsCurve_mul_h(pc, u_0),
                                            ProvisionsCurve_mul_g(pc, c_f))
               ELSE ProvisionsCurve_mul_h(pc, u_0)
        a_1 == IF has_privkey
               THEN ProvisionsCurve_mul_h(pc, u_1)
               ELSE ProvisionsCurve_add(pc, ProvisionsCurve_mul_h(pc, u_1),
                                            ProvisionsCurve_mul_g(pc, c_f))
        c_1 == IF has_privkey THEN mod_floor(c - c_f, q) ELSE c_f
        r_0 == IF has_privkey THEN mod_floor(u_0 - (c_f * y), q) ELSE u_0 + (c - c_f) * y
        r_1 == IF has_privkey THEN mod_floor(u_1 + (c - c_f) * y, q) ELSE u_1 + c_f * y
        l == verifier_proof.l
    IN  CHOOSE out \in
            { IF FirstPanic(<<lhs1, rhs1, lhs2, rhs2>>) # None
              THEN [printed |-> None, value |-> FirstPanic(<<lhs1, rhs1, lhs2, rhs2>>)]
              ELSE [printed |-> [p1 |-> lhs1 = rhs1, p2 |-> lhs2 = rhs2],
                    value |-> IF lhs1 = rhs1
                              THEN IF lhs2 = rhs2 THEN Ok(<<>>)
                                   ELSE Err("Unable to verify proof part 2")
                              ELSE Err("Unable to verify proof part 1")] :
                lhs1 \in {ProvisionsCurve_mul_h(pc, r_0)},
                rhs1 \in {ProvisionsCurve_add(pc, a_0, ProvisionsCurve_mul(pc, l, c - c_1))},
                lhs2 \in {ProvisionsCurve_mul_h(pc, r_1)},
                rhs2 \in {ProvisionsCurve_add(pc, a_1,
                              ProvisionsCurve_mul(pc, ProvisionsCurve_sub(pc, l, pc.curve.g), c_1))} }
            : TRUE

(***************************************************************************)
(* Specification of the field: a Field is constructed, then any operation  *)
(* of FieldElement is applied to elements of that field.                   *)
(***************************************************************************)
Moduli == 2..MaxModulus

Values == (-MaxValue)..MaxValue

Elements(f) == {elem(f, v) : v \in 0..(f.p - 1)}

InitField ==
    /\ field \in {Field_new(p) : p \in Moduli}
    /\ curve = None
    /\ secp = None
    /\ op = "new"
    /\ args = <<>>
    /\ ret = None

\* The context is constructed and no call is in progress.
Ready == op = "new"

Call(name, in, out) ==
    /\ op' = name
    /\ args' = in
    /\ ret' = out
    /\ UNCHANGED <<field, curve, secp>>

DoElem ==
    /\ Ready
    /\ \E v \in Values : Call("elem", <<v>>, elem(field, v))

DoAdd ==
    /\ Ready
    /\ \E a, b \in Elements(field) : Call("add", <<a, b>>, fe_add(a, b))

DoSub ==
    /\ Ready
    /\ \E a, b \in Elements(field) : Call("sub", <<a, b>>, fe_sub(a, b))

DoNeg ==
    /\ Ready
    /\ \E a \in Elements(field) : Call("neg", <<a>>, fe_neg(a))

DoMul ==
    /\ Ready
    /\ \E a, b \in Elements(field) : Call("mul", <<a, b>>, fe_mul(a, b))

DoMulInt ==
    /\ Ready
    /\ \E a \in Elements(field), n \in Values : Call("mul_int", <<a, n>>, fe_mul_int(a, n))

DoDiv ==
    /\ Ready
    /\ \E a, b \in Elements(field) : Call("div", <<a, b>>, fe_div(a, b))

DoPow ==
    /\ Ready
    /\ \E a \in Elements(field), n \in 0..MaxValue : Call("pow", <<a, n>>, pow(a, n))

DoInverse ==
    /\ Ready
    /\ \E a \in Elements(field) : Call("inverse", <<a>>, inverse(a))

DoSqrt ==
    /\ Ready
    /\ \E a \in Elements(field) : Call("sqrt", <<a>>, sqrt(a))

\* extended_euclidean_algorithm(value, modulus), as inverse calls it; the
\* returned tuple (old_r, old_s, old_t) is kept as (gcd, x, y).
DoExtendedEuclideanAlgorithm ==
    /\ Ready
    /\ \E a \in 0..(field.p - 1) :
        \E g \in {extended_euclidean_algorithm(a, field.p)} :
           Call("extended_euclidean_algorithm", <<a, field.p>>,
                [gcd |-> g[1], x |-> g[2], y |-> g[3]])

\* The caller drops the returned value; the context is ready for another call.
Discard ==
    /\ op # "new"
    /\ op' = "new"
    /\ args' = <<>>
    /\ ret' = None
    /\ UNCHANGED <<field, curve, secp>>

NextField ==
    \/ Discard
    \/ DoElem
    \/ DoAdd
    \/ DoSub
    \/ DoNeg
    \/ DoMul
    \/ DoMulInt
    \/ DoDiv
    \/ DoPow
    \/ DoInverse
    \/ DoSqrt
    \/ DoExtendedEuclideanAlgorithm

SpecField == InitField /\ [][NextField]_vars

(***************************************************************************)
(* Properties of the field.                                                *)
(***************************************************************************)
IsPrime(n) == n > 1 /\ \A d \in 2..(n - 1) : n % d # 0

Divides(d, n) == n % d = 0

\* Greatest common divisor of a >= 0 and b > 0, by definition.
GCD(a, b) == CHOOSE d \in 1..b : /\ Divides(d, a) /\ Divides(d, b)
                                  /\ \A e \in 1..b : (Divides(e, a) /\ Divides(e, b)) => e <= d

FieldOps == {"elem", "add", "sub", "neg", "mul", "mul_int", "div", "pow", "inverse", "sqrt"}

\* C1: every FieldElement returned by Field::elem or by an arithmetic operation
\* (add, sub, neg, mul, mul by integer, div, pow, inverse, sqrt) of the field has
\* 0 <= value < modulus, also when the input or an intermediate result is negative.
C1_ValueInRange ==
    (op \in FieldOps /\ ~IsPanic(ret)) =>
        /\ ret.p = field.p
        /\ 0 <= ret.value
        /\ ret.value < ret.p

\* elem(-4) in F_7 is 3, and the difference 2 - 5 in F_7 is 4.
C1_Witness ==
    \/ op = "elem" /\ field.p = 7 /\ args = <<-4>> /\ ret.value = 3
    \/ op = "sub" /\ field.p = 7 /\ args[1].value = 2 /\ args[2].value = 5 /\ ret.value = 4

\* C2: over a prime modulus, for every a # 0, a.inverse() is the multiplicative
\* inverse (a * a.inverse() == 1) and equals the Fermat inverse of slow_inverse.
C2_InverseIsInverse ==
    (op = "inverse" /\ IsPrime(field.p) /\ args[1].value # 0) =>
        /\ ~IsPanic(ret)
        /\ fe_eq_usize(fe_mul(args[1], ret), 1)
        /\ ret = slow_inverse(args[1])

\* The inverse of 5 in F_7 is 3.
C2_Witness ==
    /\ op = "inverse" /\ field.p = 7 /\ args[1].value = 5
    /\ ~IsPanic(ret) /\ ret.value = 3

\* C3: inverse returns a value only when gcd(value, modulus) = 1, and for every
\* element with gcd # 1 (value 0, or a common factor with a composite modulus) it
\* fails with 'has no multiplicative inverse' and with no other failure.
C3_NonInvertibleFailure ==
    op = "inverse" =>
        IF GCD(args[1].value, field.p) = 1 THEN ~IsPanic(ret) ELSE ret = NoInverse

(***************************************************************************)
(* Specification of the curve: a FiniteCurve is constructed, then points   *)
(* of the curve are added, multiplied, encoded and decoded.                *)
(***************************************************************************)
\* y^2 = x^3 + a*x + b in F_p, evaluated on integers.
SatisfiesEquation(c, x, y) ==
    (y * y - (x * x * x + c.a.value * x + c.b.value)) % c.field.p = 0

\* The discriminant 4a^3 + 27b^2 is not zero in F_p.
NonSingular(c) ==
    (4 * c.a.value * c.a.value * c.a.value + 27 * c.b.value * c.b.value) % c.field.p # 0

Curves ==
    {c \in {FiniteCurve_new(a, b, p) : a \in 0..MaxP, b \in 0..MaxP, p \in 5..MaxP} :
        /\ IsPrime(c.field.p)
        /\ NonSingular(c)}

FieldValues(c) == 0..(c.field.p - 1)

\* The coordinate points on the curve.
CurvePoints(c) ==
    {point(c, x, y) : <<x, y>> \in
        {xy \in FieldValues(c) \X FieldValues(c) : SatisfiesEquation(c, xy[1], xy[2])}}

\* The points of the group: the coordinate points and Infinity.
GroupPoints(c) == CurvePoints(c) \cup {Infinity}

Scalars == (-MaxScalar)..MaxScalar

\* n as 32 bytes big-endian, zero-padded, for every 0 <= n < 256^32.
Pad32(n) == zeros(32 - Len(to_bytes_be(n))) \o to_bytes_be(n)

Take(b, n) == SubSeq(b, 1, IF n < Len(b) THEN n ELSE Len(b))

\* Byte strings handed to from_sec: well-formed and truncated uncompressed
\* encodings of arbitrary (x, y), compressed encodings of arbitrary x with
\* padded, minimal and missing x, other prefixes, and the empty string.
SecInputs(c) ==
    {<<>>}
    \cup {Take(<<4>> \o Pad32(x) \o Pad32(y) \o <<0>>, n) :
            x \in FieldValues(c), y \in FieldValues(c), n \in {1, 33, 64, 65, 66}}
    \cup {<<pre>> \o enc : pre \in {2, 3},
            enc \in UNION {{Pad32(x), to_bytes_be(x), <<>>} : x \in FieldValues(c)}}
    \cup {<<pre>> \o Pad32(x) \o Pad32(x) : pre \in {0, 1, 5, 255}, x \in {0, 1}}

InitCurve ==
    /\ curve \in Curves
    /\ field = curve.field
    /\ secp = None
    /\ op = "new"
    /\ args = <<>>
    /\ ret = None

DoPointInverse ==
    /\ Ready
    /\ \E p \in GroupPoints(curve) : Call("point_inverse", <<p>>, Point_inverse(p))

DoPointAdd ==
    /\ Ready
    /\ \E p, q \in GroupPoints(curve) : Call("point_add", <<p, q>>, Point_add(p, q, curve))

DoPointSub ==
    /\ Ready
    /\ \E p, q \in GroupPoints(curve) : Call("point_sub", <<p, q>>, Point_sub(p, q, curve))

DoPointMul ==
    /\ Ready
    /\ \E p \in GroupPoints(curve), n \in Scalars :
       Call("point_mul", <<p, n>>, Point_mul(p, n, curve))

DoCurveAdd ==
    /\ Ready
    /\ \E p, q \in GroupPoints(curve) : Call("curve_add", <<p, q>>, FiniteCurve_add(curve, p, q))

DoCurveMul ==
    /\ Ready
    /\ \E p \in GroupPoints(curve), n \in Scalars :
       Call("curve_mul", <<p, n>>, FiniteCurve_mul(curve, p, n))

DoAsSec ==
    /\ Ready
    /\ \E p \in GroupPoints(curve) : Call("as_sec", <<p>>, as_sec(p))

DoAsSecCompressed ==
    /\ Ready
    /\ \E p \in GroupPoints(curve) : Call("as_sec_compressed", <<p>>, as_sec_compressed(p))

DoFromSec ==
    /\ Ready
    /\ \E b \in SecInputs(curve) : Call("from_sec", <<b>>, from_sec(b, curve))

\* tests::TestProof
TestProof_new(p) == [p |-> p]

\* The slices of at most MaxProofs proofs over the points of the group.
ProofSlices(c) ==
    UNION {[1..n -> {TestProof_new(p) : p \in GroupPoints(c)}] : n \in 0..MaxProofs}

\* ProofOfAssets::gen_z_assets of a ProofOfAssets over this curve; gen_z_assets
\* reads only the curve of its ProvisionsCurve.
DoGenZAssets ==
    /\ Ready
    /\ \E proofs \in ProofSlices(curve) :
           Call("gen_z_assets", <<proofs>>, gen_z_assets([curve |-> [curve |-> curve]], proofs))

NextCurve ==
    \/ Discard
    \/ DoGenZAssets
    \/ DoPointInverse
    \/ DoPointAdd
    \/ DoPointSub
    \/ DoPointMul
    \/ DoCurveAdd
    \/ DoCurveMul
    \/ DoAsSec
    \/ DoAsSecCompressed
    \/ DoFromSec

SpecCurve == InitCurve /\ [][NextCurve]_vars

(***************************************************************************)
(* Properties of the curve.                                                *)
(***************************************************************************)
\* C4: for every point P of the group, P.add(P.inverse()) == Infinity,
\* P.add(Infinity) == P, Infinity.add(P) == P, and P - P == Infinity.
C4_IdentityAndInverse ==
    /\ (op = "point_add" /\ args[2] = Point_inverse(args[1])) => ret = Infinity
    /\ (op = "point_add" /\ args[2] = Infinity) => ret = args[1]
    /\ (op = "point_add" /\ args[1] = Infinity) => ret = args[2]
    /\ (op = "point_sub" /\ args[1] = args[2]) => ret = Infinity

\* A coordinate point with y # 0 was added to its inverse, which is another point.
C4_Witness ==
    /\ op = "point_add"
    /\ ~args[1].inf
    /\ args[1].y.value # 0
    /\ args[2] = Point_inverse(args[1])
    /\ ret = Infinity

\* C5: for every point P of the curve and all scalars a, b,
\* P.mul(a + b) == P.mul(a).add(P.mul(b)), with mul being Point::mul.
C5_MulDistributes ==
    (op = "point_mul" /\ ~args[1].inf) =>
        \A a, b \in Scalars :
            a + b = args[2] =>
                ret = Point_add(Point_mul(args[1], a, curve), Point_mul(args[1], b, curve), curve)

\* C6: on a curve over F_p with p = 3 mod 4, for every coordinate point P,
\* from_sec(as_sec(P)) == Ok(P) and from_sec(as_sec_compressed(P)) == Ok(P).
C6_SecRoundTrip ==
    (op \in {"as_sec", "as_sec_compressed"} /\ curve.field.p % 4 = 3 /\ ~args[1].inf) =>
        /\ ~IsPanic(ret)
        /\ from_sec(ret.bytes, curve) = Ok(args[1])

\* C7: for every coordinate point, as_sec is the 65 bytes 0x04, x, y and
\* as_sec_compressed is the 33 bytes 0x02 (y even) or 0x03 (y odd), x, with x and
\* y as 32 bytes big-endian, zero-padded, whatever their magnitude, 0 included.
C7_SecLayout ==
    /\ (op = "as_sec" /\ ~args[1].inf) =>
          /\ ~IsPanic(ret)
          /\ Len(ret.bytes) = 65
          /\ ret.bytes = <<4>> \o Pad32(args[1].x.value) \o Pad32(args[1].y.value)
    /\ (op = "as_sec_compressed" /\ ~args[1].inf) =>
          /\ ~IsPanic(ret)
          /\ Len(ret.bytes) = 33
          /\ ret.bytes = <<IF args[1].y.value % 2 = 0 THEN 2 ELSE 3>> \o Pad32(args[1].x.value)

\* C8: from_sec returns Ok only for points that satisfy the curve equation.
C8_DecodedPointOnCurve ==
    (op = "from_sec" /\ "ok" \in DOMAIN ret) =>
        /\ ~ret.ok.inf
        /\ SatisfiesEquation(curve, ret.ok.x.value, ret.ok.y.value)

\* C9: from_sec returns an explicit error, neither a panic nor Ok, for the empty
\* byte string, for a first byte other than 2, 3 or 4, for an uncompressed input
\* shorter than 65 bytes and for a compressed input shorter than 33 bytes.
C9_MalformedIsError ==
    (/\ op = "from_sec"
     /\ \/ Len(args[1]) = 0
        \/ args[1][1] \notin {2, 3, 4}
        \/ args[1][1] = 4 /\ Len(args[1]) < 65
        \/ args[1][1] \in {2, 3} /\ Len(args[1]) < 33)
    => "err" \in DOMAIN ret

(***************************************************************************)
(* Specification of ECDSA: the Signer is constructed, signs a message      *)
(* scalar with a nonce and a private key, and the signature is verified    *)
(* against the public key of that private key.                             *)
(***************************************************************************)
InitEcdsa ==
    /\ secp \in {Secp256k1_new(prm) : prm \in SecpParams}
    /\ curve = secp.curve
    /\ field = secp.subgroup_field
    /\ op = "new"
    /\ args = <<>>
    /\ ret = None

\* Nonces and private keys: 0, the range [1, n-1] and n.
Keys == 0..field.p

DoSign ==
    /\ Ready
    /\ \E z \in 0..MaxZ, k \in Keys, privkey \in Keys :
           Call("sign", <<z, k, privkey>>, sign(secp, z, k, privkey))

\* tests::ecdsa_sign_and_verify: the signature just returned is verified with
\* the public key of the private key that signed.
DoVerify ==
    /\ op = "sign"
    /\ ~IsPanic(ret)
    /\ \E pub \in {pubkey(secp, args[3])} :
           /\ op' = "verify"
           /\ args' = <<ret, pub, args[2], args[3]>>
           /\ ret' = verify(secp, ret, pub)
    /\ UNCHANGED <<field, curve, secp>>

\* The fields of a Sig that a caller can replace.
SigFields == {"z", "r", "s"}

\* A signature returned by sign is verified, with the public key of its signer,
\* after exactly one of z, r, s was replaced by a different element of the
\* subgroup field.  Signatures of the private keys 1..MaxTamperedKey are tampered.
DoVerifyTampered ==
    /\ op = "sign"
    /\ ~IsPanic(ret)
    /\ args[2] \in 1..(field.p - 1)
    /\ args[3] \in 1..MaxTamperedKey
    /\ \E which \in SigFields, v \in 0..(field.p - 1), pub \in {pubkey(secp, args[3])} :
           /\ ret[which] # Signer_elem(secp, v)
           /\ op' = "verify_tampered"
           /\ args' = <<[ret EXCEPT ![which] = Signer_elem(secp, v)], pub, ret, which>>
           /\ ret' = verify(secp, args'[1], pub)
    /\ UNCHANGED <<field, curve, secp>>

NextEcdsa ==
    \/ Discard
    \/ DoSign
    \/ DoVerify
    \/ DoVerifyTampered

SpecEcdsa == InitEcdsa /\ [][NextEcdsa]_vars

(***************************************************************************)
(* Properties of ECDSA.                                                    *)
(***************************************************************************)
\* C10: for every message scalar z, private key in [1, n-1] and nonce k in
\* [1, n-1] for which sign returns a signature, verify of that signature with the
\* public key priv*G returns true.
C10_SignThenVerify ==
    (/\ op = "verify"
     /\ args[3] \in 1..(field.p - 1)
     /\ args[4] \in 1..(field.p - 1))
    => ret = Bool(TRUE)

\* A signature whose r differs from the x coordinate of k*G (x >= n) was verified.
C10_Witness ==
    /\ op = "verify"
    /\ args[3] \in 1..(field.p - 1)
    /\ args[4] \in 1..(field.p - 1)
    /\ mul_g(secp, args[3]).x.value >= field.p
    /\ args[1].z.value # 0
    /\ ret = Bool(TRUE)

\* C11: after exactly one of z, r, s of a signature returned by sign was replaced
\* by a different element of the subgroup field, verify with the signer's public
\* key returns false.
C11_TamperedIsRejected ==
    op = "verify_tampered" => ret = Bool(FALSE)

\* C12: a Sig returned by sign has r # 0 and s # 0 in the subgroup field, and
\* sign fails for every (z, k, priv) whose r (the x of k*G modulo n) or whose
\* s (k^-1 * (z + r * priv) modulo n) is 0.
C12_NoZeroComponent ==
    op = "sign" =>
        LET n == field.p
            R == mul_g(secp, args[2])
            r == R.x.value % n
        IN  /\ ~IsPanic(ret) =>
                   /\ ret.r.value \in 1..(n - 1)
                   /\ ret.s.value \in 1..(n - 1)
            /\ (~R.inf /\ r = 0) => IsPanic(ret)
            /\ (~R.inf /\ (args[1] + r * args[3]) % n = 0) => IsPanic(ret)

\* sign was asked for a signature whose r is 0 although k*G is a point, and for
\* one whose s is 0 although r is not.
C12_Witness ==
    /\ op = "sign"
    /\ args[2] \in 1..(field.p - 1)
    /\ ~mul_g(secp, args[2]).inf
    /\ IsPanic(ret)
    /\ \/ mul_g(secp, args[2]).x.value % field.p = 0
       \/ /\ mul_g(secp, args[2]).x.value % field.p # 0
          /\ args[3] \in 1..(field.p - 1)
          /\ (args[1] + (mul_g(secp, args[2]).x.value % field.p) * args[3]) % field.p = 0

\* C13: when the point u_1*G + u_2*pubkey of verify is the point at infinity,
\* verify fails: it does not return true, and it does not return false either.
C13_InfinityFails ==
    (/\ op \in {"verify", "verify_tampered"}
     /\ verify_p(secp, args[1], args[2]) = Infinity)
    => IsPanic(ret)

\* verify was called with a signature and a public key whose point is Infinity.
C13_Witness ==
    /\ op = "verify_tampered"
    /\ ~IsPanic(inverse(args[1].s))
    /\ verify_p(secp, args[1], args[2]) = Infinity
    /\ ret = Panic("expected a coordinate")

\* C30: for every signature with r # 0 and s # 0 and every public key for
\* which P = u_1*G + u_2*pubkey is a coordinate point, verify returns a
\* boolean, and it returns false whenever P.x mod n # r, also when
\* P.x mod n = 0.
C30_VerifyReturnsBoolean ==
    (/\ op \in {"verify", "verify_tampered"}
     /\ args[1].r.value # 0
     /\ args[1].s.value # 0
     /\ ~IsPanic(verify_p(secp, args[1], args[2]))
     /\ ~verify_p(secp, args[1], args[2]).inf) =>
        /\ ret \in {Bool(TRUE), Bool(FALSE)}
        /\ verify_p(secp, args[1], args[2]).x.value % field.p # args[1].r.value =>
               ret = Bool(FALSE)

(***************************************************************************)
(* Specification of the Pedersen commitments of binary_commitment.rs: a    *)
(* Secp256k1 is constructed, g is its generator and h a multiple of g (as  *)
(* in tests::pedersen_commitment_binary_verify); commitments are created,  *)
(* added and verified.                                                     *)
(***************************************************************************)
\* A curve y^2 = x^3 + 7 of prime order n < p, large enough for the values
\* u0 = 9213, u1 = 125, cf = 3 of verify_binary_commitment to be small in it.
PedersenParams == [a |-> 0, b |-> 7, p |-> 22003, n |-> 21739, x_g |-> 2, y_g |-> 2401]

InitPedersen ==
    /\ secp = Secp256k1_new(PedersenParams)
    /\ curve = secp.curve
    /\ field = secp.subgroup_field
    /\ op = "new"
    /\ args = <<>>
    /\ ret = None

\* The second generator: h = g * m for m in 2..MaxGenerator.
Generators == {SecpPoint_mul(secp, secp.g, m) : m \in 2..MaxGenerator}

\* Values and blinding factors of the commitments that are added.
CommitScalars == (-MaxCommitted)..MaxCommitted

\* commit(x1, r1).l + commit(x2, r2).l
DoCommitmentAdd ==
    /\ Ready
    /\ \E h \in Generators, x1, r1, x2, r2 \in CommitScalars :
           Call("commitment_add", <<h, x1, r1, x2, r2>>,
                SecpPoint_add(secp, create_commitment(secp.g, h, secp, x1, r1).l,
                                    create_commitment(secp.g, h, secp, x2, r2).l))

\* Committed values: 0, 1, small values outside {0, 1}, the order n of the
\* group and the prime p of the field.
CommittedValues == (0..MaxValueCommitted) \cup {field.p, curve.field.p}

\* Blinding factors: the small ones and the large ones of Z_n.
BlindingFactors ==
    (0..MaxBlindingFactor) \cup {field.p - 1 - i : i \in 0..MaxBlindingFactor}

\* tests::pedersen_commitment_binary_verify: a commitment is created ...
DoCreateCommitment ==
    /\ Ready
    /\ \E h \in Generators, value \in CommittedValues, bf \in BlindingFactors :
           Call("create_commitment", <<h, value, bf>>,
                create_commitment(secp.g, h, secp, value, bf))

\* ... and verified with its blinding factor and with a claimed value: the
\* committed one, 0 or 1.
DoVerifyBinaryCommitment ==
    /\ op = "create_commitment"
    /\ ~IsPanic(ret)
    /\ \E claimed \in {args[2], 0, 1} :
           /\ op' = "verify_binary_commitment"
           /\ args' = <<ret, claimed, args[3], args[2]>>
           /\ ret' = verify_binary_commitment(ret, claimed, args[3], secp)
    /\ UNCHANGED <<field, curve, secp>>

NextPedersen ==
    \/ Discard
    \/ DoCommitmentAdd
    \/ DoCreateCommitment
    \/ DoVerifyBinaryCommitment

SpecPedersen == InitPedersen /\ [][NextPedersen]_vars

(***************************************************************************)
(* Properties of the Pedersen commitments.                                 *)
(***************************************************************************)
\* C14: for all scalars x1, r1, x2, r2 and generators g, h,
\* create_commitment(x1, r1).l + create_commitment(x2, r2).l is
\* create_commitment(x1 + x2, r1 + r2).l.
C14_CommitmentHomomorphic ==
    op = "commitment_add" =>
        ret = create_commitment(secp.g, args[1], secp,
                                args[2] + args[4], args[3] + args[5]).l

\* C17: verify_binary_commitment returns true for every commitment created with
\* value 0 and with value 1, for every blinding factor, when it is called with
\* that value and that blinding factor.
C17_BinaryCommitmentAccepted ==
    (/\ op = "verify_binary_commitment"
     /\ args[4] \in {0, 1}
     /\ args[2] = args[4])
    => ret = Bool(TRUE)

\* C18: verify_binary_commitment returns false when a commitment to 1 is verified
\* as 0, when a commitment to 0 is verified as 1, and when the committed value is
\* outside {0, 1}.
C18_BinaryCommitmentRejected ==
    (/\ op = "verify_binary_commitment"
     /\ \/ args[4] \in {0, 1} /\ args[2] \in {0, 1} /\ args[2] # args[4]
        \/ args[4] \notin {0, 1})
    => ret = Bool(FALSE)

(***************************************************************************)
(* Specification of the proof of assets: a ProofOfAssets is constructed, a *)
(* proof is generated for a public key and verified.  The values that      *)
(* gen_rand draws are inputs of the actions.                               *)
(***************************************************************************)
\* The curve of the proof of assets: y^2 = x^3 + 14 over F_19, n = 13.
ProvisionsParams == [a |-> 0, b |-> 14, p |-> 19, n |-> 13, x_g |-> 5, y_g |-> 5]

\* ProofOfAssets::new: `curve' is the ProvisionsCurve of the ProofOfAssets.
InitProvisions ==
    /\ secp = Secp256k1_new(ProvisionsParams)
    /\ curve = ProvisionsCurve_new(secp)
    /\ field = secp.subgroup_field
    /\ op = "new"
    /\ args = <<>>
    /\ ret = None

\* gen_rand: 0..MaxRand instead of 0..99.
Rand == 0..MaxRand

\* Private keys: the 5 of tests::gen_pubkey and the largest one, n - 1.
PrivateKeys == {5, field.p - 1}

\* Balances: those of tests::poa_public_key_proof.
Balances == {2, 5}

\* Public keys with a known and with an unknown private key.
PublicKeys ==
    {PublicKey_new(k, ProvisionsCurve_pubkey(curve, k), bal) : k \in PrivateKeys, bal \in Balances}
    \cup {PublicKey_new_from_pubkey(ProvisionsCurve_pubkey(curve, k), bal) :
              k \in PrivateKeys, bal \in Balances}

DoGenPkProof ==
    /\ Ready
    /\ \E pk \in PublicKeys, v \in Rand, t \in Rand :
           Call("gen_pk_proof", <<pk, v, t>>, gen_pk_proof(curve, pk, v, t))

\* tests::poa_public_key_proof: the pair that gen_pk_proof returned is verified.
DoVerifyPkProof ==
    /\ op = "gen_pk_proof"
    /\ ~IsPanic(ret)
    /\ \E u_1 \in Rand, u_2 \in Rand, u_3 \in Rand, u_4 \in Rand, c \in Rand :
        \E out \in {verify_pk_proof(curve, ret.prover, ret.verifier, u_1, u_2, u_3, u_4, c)} :
           /\ op' = "verify_pk_proof"
           /\ args' = <<ret.prover, ret.verifier, <<u_1, u_2, u_3, u_4, c>>, args[1], out.printed>>
           /\ ret' = out.value
    /\ UNCHANGED <<field, curve, secp>>

\* The scalars of a ProverPublicKeyProof.
ProverScalars == {"s", "v", "t", "x_hat"}

\* verify_pk_proof is called with a prover proof that does not belong to the
\* verifier proof: one of its scalars is one more than in the generated proof.
\* The proofs of the known private key 5 and the first balance are altered.
DoVerifyAlteredPkProof ==
    /\ op = "gen_pk_proof"
    /\ ~IsPanic(ret)
    /\ args[1] = PublicKey_new(5, ProvisionsCurve_pubkey(curve, 5), 2)
    /\ \E which \in ProverScalars,
          u_1 \in Rand, u_2 \in Rand, u_3 \in Rand, u_4 \in Rand, c \in Rand :
        \E out \in {verify_pk_proof(curve, [ret.prover EXCEPT ![which] = @ + 1], ret.verifier,
                                     u_1, u_2, u_3, u_4, c)} :
           /\ op' = "verify_pk_proof_altered"
           /\ args' = <<[ret.prover EXCEPT ![which] = @ + 1], ret.verifier,
                        <<u_1, u_2, u_3, u_4, c>>, args[1], out.printed>>
           /\ ret' = out.value
    /\ UNCHANGED <<field, curve, secp>>

\* tests::poa_verify_binary_commitment: the pair that gen_pk_proof returned is
\* given to verify_binary_commitment.
DoProofOfAssetsVerifyBinaryCommitment ==
    /\ op = "gen_pk_proof"
    /\ ~IsPanic(ret)
    /\ \E u_0 \in Rand, u_1 \in Rand, c_f \in Rand, c \in Rand :
        \E out \in {ProofOfAssets_verify_binary_commitment(curve, ret.prover, ret.verifier,
                                                            u_0, u_1, c_f, c)} :
           /\ op' = "poa_verify_binary_commitment"
           /\ args' = <<ret.prover, ret.verifier, <<u_0, u_1, c_f, c>>, args[1], out.printed>>
           /\ ret' = out.value
    /\ UNCHANGED <<field, curve, secp>>

NextProvisions ==
    \/ Discard
    \/ DoGenPkProof
    \/ DoVerifyPkProof
    \/ DoVerifyAlteredPkProof
    \/ DoProofOfAssetsVerifyBinaryCommitment

SpecProvisions == InitProvisions /\ [][NextProvisions]_vars

(***************************************************************************)
(* Properties of the proof of assets.                                      *)
(***************************************************************************)
\* C15: for every public key, with a known or an unknown private key, every
\* balance, and every v, t, u_1..u_4 and c, verify_pk_proof of the pair that
\* gen_pk_proof returned is Ok.
C15_PkProofComplete ==
    op = "verify_pk_proof" => ret = Ok(<<>>)

\* The proof of the largest private key, n - 1, was verified with a challenge
\* and blinding values that are not 0: the response r_x_hat reaches the order n.
C15_Witness ==
    /\ op = "verify_pk_proof"
    /\ args[4].private_key = Some(field.p - 1)
    /\ args[3][5] > 0
    /\ args[3][1] > 0
    /\ args[1].v > 0
    /\ args[1].t > 0
    /\ args[1].x_hat * args[3][5] + args[3][4] >= field.p
    /\ ret = Ok(<<>>)

\* C19: for a public key whose private key is known (s = 1), and every t, u_0,
\* u_1, c_f and c, ProofOfAssets::verify_binary_commitment of the pair that
\* gen_pk_proof returned is Ok.
C19_KnownKeyBinaryCommitmentOk ==
    (op = "poa_verify_binary_commitment" /\ args[1].s = 1) => ret = Ok(<<>>)

\* C28: a proof whose prover view has s = 1 and an x_hat with x_hat*G # y is
\* not accepted by verify_pk_proof, for every u_1..u_4 and c that gen_rand draws.
C28_WrongXHatIsRejected ==
    (/\ op = "verify_pk_proof_altered"
     /\ args[1].s = 1
     /\ ProvisionsCurve_mul_g(curve, args[1].x_hat) # args[1].y) =>
        ret # Ok(<<>>)

\* C29: in every run of ProofOfAssets::verify_binary_commitment, for s = 1 and
\* for s = 0, every scalar passed to a multiplication of the curve (r_0, r_1,
\* c - c_1, c_1, c_f) is not negative.
C29_ScalarsNotNegative ==
    op = "poa_verify_binary_commitment" =>
        LET scalars == verify_binary_commitment_scalars(
                           args[1], args[3][1], args[3][2], args[3][3], args[3][4],
                           Secp256k1_order(curve.curve))
        IN  \A name \in DOMAIN scalars : scalars[name] >= 0

\* C16: verify_pk_proof returns Ok exactly when its three comparisons (the p1,
\* p2, p3 that it prints) hold, and
\* otherwise the error that names the first comparison that does not hold.
C16_FirstFailingPart ==
    op \in {"verify_pk_proof", "verify_pk_proof_altered"} =>
        LET parts == args[5]
        IN  /\ ~IsPanic(parts)
            /\ ret = Ok(<<>>) <=> (parts.p1 /\ parts.p2 /\ parts.p3)
            /\ ~parts.p1 => ret = Err("Unable to verify proof part 1")
            /\ (parts.p1 /\ ~parts.p2) => ret = Err("Unable to verify proof part 2")
            /\ (parts.p1 /\ parts.p2 /\ ~parts.p3) => ret = Err("Unable to verify proof part 3")

\* The second comparison failed while the first one held.
C16_Witness ==
    /\ op = "verify_pk_proof_altered"
    /\ args[5].p1
    /\ ~args[5].p2
    /\ ret = Err("Unable to verify proof part 2")

(***************************************************************************)
(* Properties of the scalar multiplication.                                *)
(***************************************************************************)
\* C22: for every point P of the curve and every n >= 0 below the modulus that
\* the multiplication applies (the prime of the field in Point::mul, none in
\* FiniteCurve::mul), Point::mul(P, n) and FiniteCurve::mul(P, n) are the
\* result of adding P to Infinity n times; mul(P, 0) is Infinity and
\* mul(P, 1) is P.
C22_MulIsRepeatedAddition ==
    /\ (op = "point_mul" /\ args[2] >= 0 /\ args[2] < curve.field.p) =>
           ret = naive_mul(curve, args[1], args[2])
    /\ (op = "curve_mul" /\ args[2] >= 0) =>
           ret = naive_mul(curve, args[1], args[2])
    /\ (op \in {"point_mul", "curve_mul"} /\ args[2] = 0) => ret = Infinity
    /\ (op \in {"point_mul", "curve_mul"} /\ args[2] = 1) => ret = args[1]

\* Point::mul multiplied a coordinate point by 6 in F_7 and the product is
\* another coordinate point.
C22_Witness ==
    /\ op = "point_mul"
    /\ curve.field.p = 7
    /\ args[2] = 6
    /\ ~args[1].inf
    /\ ~IsPanic(ret)
    /\ ~ret.inf
    /\ ret # args[1]
    /\ ret # Point_inverse(args[1])

\* C23: for every point P of the curve and every x > 0, Point::mul(P, -x) is
\* the group inverse of Point::mul(P, x).
C23_NegativeScalarIsInverse ==
    (op = "point_mul" /\ args[2] < 0) =>
        ret = Point_inverse(Point_mul(args[1], -args[2], curve))

\* C24: for all P, Q that are Infinity or points of the curve over a prime
\* field, Point::add(P, Q) is Infinity or satisfies the curve equation
\* (is_valid_point), and so is every result of Point::mul.
C24_Closure ==
    op \in {"point_add", "point_mul"} =>
        /\ ~IsPanic(ret)
        /\ ret.inf \/ is_valid_point(curve, ret)

\* Two different coordinate points that are not inverses were added, and a
\* coordinate point was doubled: the sums are coordinate points of the curve.
C24_Witness ==
    /\ op = "point_add"
    /\ ~args[1].inf
    /\ ~args[2].inf
    /\ args[1].x # args[2].x
    /\ ~IsPanic(ret)
    /\ ~ret.inf
    /\ is_valid_point(curve, ret)

\* C26: for any two points of the curve, Point::add does not invert zero: it
\* does not panic, the divisor of the slope is not 0 whenever a slope is
\* computed, the branch of equal x is taken only for P == Q, and the double of
\* a point with y = 0 is Infinity.
C26_NoInversionOfZero ==
    op = "point_add" =>
        /\ ~IsPanic(ret)
        /\ (~args[1].inf /\ ~args[2].inf /\ args[1] # Point_inverse(args[2])) =>
               /\ add_divisor(args[1], args[2]).value # 0
               /\ args[1].x = args[2].x => args[1] = args[2]
        /\ (~args[1].inf /\ args[1] = args[2] /\ args[1].y.value = 0) => ret = Infinity

\* A point with y = 0 was doubled.
C26_Witness ==
    /\ op = "point_add"
    /\ ~args[1].inf
    /\ args[1] = args[2]
    /\ args[1].y.value = 0
    /\ ret = Infinity

(***************************************************************************)
(* Properties of the square root.                                          *)
(***************************************************************************)
\* b^e on the integers, by repeated multiplication.
RECURSIVE IntPow(_, _)
IntPow(b, e) == IF e = 0 THEN 1 ELSE b * IntPow(b, e - 1)

\* v is a square in F_p.
IsQuadraticResidue(v, p) == \E w \in 0..(p - 1) : (w * w) % p = v

\* C25: for every prime modulus p with p % 4 = 3 and every quadratic residue v
\* of F_p, sqrt(v) is v^((p+1)/4), its square is v, and the other root
\* p - sqrt(v) has the opposite parity when v # 0.
C25_SqrtOfResidue ==
    (/\ op = "sqrt"
     /\ IsPrime(field.p)
     /\ field.p % 4 = 3
     /\ IsQuadraticResidue(args[1].value, field.p)) =>
        /\ ~IsPanic(ret)
        /\ ret.p = field.p
        /\ ret.value = IntPow(args[1].value, (field.p + 1) \div 4) % field.p
        /\ (ret.value * ret.value) % field.p = args[1].value
        /\ ((field.p - ret.value) * (field.p - ret.value)) % field.p = args[1].value
        /\ args[1].value # 0 => (field.p - ret.value) % 2 # ret.value % 2

\* The square root of 5 in F_11 is 4 = 5^3 mod 11, and the other root is 7.
C25_Witness ==
    /\ op = "sqrt"
    /\ field.p = 11
    /\ args[1].value = 5
    /\ ret = elem(field, 4)

\* The slice proofs in the order f.
Reordered(proofs, f) == [i \in DOMAIN proofs |-> proofs[f[i]]]

\* The orders of n proofs.
Orders(n) == {f \in [1..n -> 1..n] : \A i, j \in 1..n : f[i] = f[j] => i = j}

\* C27: for all P, Q that are Infinity or points of the curve, Point::add(P, Q)
\* == Point::add(Q, P); Point::mul, which adds result + current, and
\* FiniteCurve::mul, which adds current + result, return the same point; and
\* gen_z_assets returns the same point for every order of the proofs.
C27_AddCommutes ==
    /\ op = "point_add" => ret = Point_add(args[2], args[1], curve)
    /\ (op = "point_mul" /\ args[2] >= 0 /\ args[2] < curve.field.p) =>
           ret = FiniteCurve_mul(curve, args[1], args[2])
    /\ op = "gen_z_assets" =>
           \A f \in Orders(Len(args[1])) :
               ret = gen_z_assets([curve |-> [curve |-> curve]], Reordered(args[1], f))

\* Two coordinate points with different x were added in this order, and their
\* sum in the other order is the same coordinate point.
C27_Witness ==
    /\ op = "point_add"
    /\ ~args[1].inf
    /\ ~args[2].inf
    /\ args[1].x.value < args[2].x.value
    /\ ~IsPanic(ret)
    /\ ~ret.inf
    /\ ret = Point_add(args[2], args[1], curve)

(***************************************************************************)
(* Properties of the extended Euclidean algorithm.                         *)
(***************************************************************************)
\* C21: for 0 <= a < b, extended_euclidean_algorithm(a, b) returns (gcd, x, y)
\* where gcd is the greatest common divisor of a and b and a*x + b*y = gcd.
C21_BezoutIdentity ==
    op = "extended_euclidean_algorithm" =>
        /\ ret.gcd = GCD(args[1], args[2])
        /\ args[1] * ret.x + args[2] * ret.y = ret.gcd

(***************************************************************************)
(* Specification of the DER encoding: Sig::as_der of signatures whose r    *)
(* and s have one to four bytes, in a field that holds four-byte values.   *)
(***************************************************************************)
\* The field of the components: the largest prime that the integers of the
\* model can hold, 2^31 - 1.
DerField == Field_new(2147483647)

InitDer ==
    /\ field = DerField
    /\ curve = None
    /\ secp = None
    /\ op = "new"
    /\ args = <<>>
    /\ ret = None

\* The values at which the number of bytes or the high bit of the first byte
\* changes: 2^7, 2^8, 2^15, 2^16, 2^23, 2^24.
DerBoundaries == {128, 256, 32768, 65536, 8388608, 16777216}

\* Components: 0, 1, the values around each boundary, and the largest
\* element of the field.
DerValues ==
    {0, 1, field.p - 1} \cup {b - 1 : b \in DerBoundaries} \cup DerBoundaries
    \cup {b + 1 : b \in DerBoundaries}

\* tests::ecdsa_der_serialization: Sig::new of field elements, then as_der.
DoAsDer ==
    /\ Ready
    /\ \E r \in DerValues, s \in DerValues :
           Call("as_der", <<Sig(elem(field, r), elem(field, s), elem(field, 1))>>,
                as_der(Sig(elem(field, r), elem(field, s), elem(field, 1))))

NextDer ==
    \/ Discard
    \/ DoAsDer

SpecDer == InitDer /\ [][NextDer]_vars

(***************************************************************************)
(* Properties of the DER encoding.                                         *)
(***************************************************************************)
\* The bytes cont are the DER INTEGER contents of the positive value v: they
\* are v in big-endian, the first byte has its high bit clear, and a leading 0
\* byte is there exactly when the byte after it has its high bit set.
IsDerIntegerContents(cont, v) ==
    /\ Len(cont) >= 1
    /\ \A i \in 1..Len(cont) : cont[i] \in 0..255
    /\ from_bytes_be(cont) = v
    /\ cont[1] < 128
    /\ cont[1] = 0 => (Len(cont) >= 2 /\ cont[2] >= 128)

\* C20: as_der of a signature with positive r and s is 0x30, the summed length
\* of the two encoded integers, then for r and for s: 0x02, the length of the
\* contents, and the contents: the minimal big-endian bytes of the integer
\* with one 0 byte in front exactly when their first byte has its high bit set.
C20_DerLayout ==
    (op = "as_der" /\ args[1].r.value > 0 /\ args[1].s.value > 0) =>
        /\ ~IsPanic(ret)
        /\ LET d == ret.bytes
               lr == d[4]
               ls == d[6 + lr]
           IN  /\ Len(d) >= 8
               /\ d[1] = 48
               /\ d[2] = Len(d) - 2
               /\ d[3] = 2
               /\ Len(d) = 6 + lr + ls
               /\ d[5 + lr] = 2
               /\ d[2] = (2 + lr) + (2 + ls)
               /\ IsDerIntegerContents(SubSeq(d, 5, 4 + lr), args[1].r.value)
               /\ IsDerIntegerContents(SubSeq(d, 7 + lr, 6 + lr + ls), args[1].s.value)

\* A signature was encoded whose r needs the 0 byte in front of three bytes
\* and whose s needs none in front of four bytes.
C20_Witness ==
    /\ op = "as_der"
    /\ args[1].r.value = 8388608
    /\ args[1].s.value = 16777216
    /\ ret = Bytes(<<48, 12, 2, 4, 0, 128, 0, 0, 2, 4, 1, 0, 0, 0>>)

====
